---- MODULE Spec2Model ----
(***************************************************************************)
(* Model of the music-separator service: the upload handler of main.py     *)
(* (separate_audio_endpoint) and the separation runner of                  *)
(* run_separation.py (separate_music and the script's __main__ block).     *)
(*                                                                         *)
(* Text (str) is a sequence of tokens.  A token is either one character    *)
(* that the code looks at (" ", "\t", "\n", "'", ".", "/") or a word that  *)
(* contains none of them, so splitting, stripping and substring search     *)
(* act on tokens exactly as the Python methods act on characters.          *)
(***************************************************************************)
EXTENDS Integers, Sequences, FiniteSets, TLC

\* ------------------------------------------------------------------ bounds

\* Number of activations: HTTP requests in Spec, calls/script runs in SpecRunner.
NumRequests == 2
\* Longest tail (in tokens) after the marker on a line of tool output (SpecInfer).
MaxTail == 3

Requests == 1..NumRequests
NoRequest == 0

\* ------------------------------------------------------------ python values

None == [type |-> "NoneType"]
Unbound == [type |-> "unbound"]
Path(parts) == [type |-> "Path", parts |-> parts]

\* ------------------------------------------------------------- str methods

RECURSIVE splitAt(_, _, _)
\* s split at every token of seps, empty pieces kept; cur is the piece being read.
splitAt(s, seps, cur) ==
    IF s = <<>> THEN <<cur>>
    ELSE IF Head(s) \in seps THEN <<cur>> \o splitAt(Tail(s), seps, <<>>)
    ELSE splitAt(Tail(s), seps, Append(cur, Head(s)))

\* str.split(" "): split at every single space; "a  b" gives ["a", "", "b"].
split(s) == splitAt(s, {" "}, <<>>)

\* str.splitlines(): no line for the empty text, no empty last line after a
\* final line break.
splitlines(s) ==
    IF s = <<>> THEN <<>>
    ELSE LET pieces == splitAt(s, {"\n"}, <<>>)
         IN  IF s[Len(s)] = "\n" THEN SubSeq(pieces, 1, Len(pieces) - 1) ELSE pieces

RECURSIVE lstrip(_, _)
lstrip(s, chars) ==
    IF s # <<>> /\ Head(s) \in chars THEN lstrip(Tail(s), chars) ELSE s

RECURSIVE rstrip(_, _)
rstrip(s, chars) ==
    IF s # <<>> /\ s[Len(s)] \in chars THEN rstrip(SubSeq(s, 1, Len(s) - 1), chars) ELSE s

\* str.strip(chars)
strip(s, chars) == rstrip(lstrip(s, chars), chars)

\* needle in s
contains(needle, s) ==
    \E i \in 1..(Len(s) - Len(needle) + 1) : SubSeq(s, i, i + Len(needle) - 1) = needle

SelectedModel == <<"Selected", " ", "model">>
DefaultModel == <<"default", " ", "model">>
htdemucs == <<"htdemucs">>

\* line 76: the line mentions a marker
IsMarkerLine(line) == contains(SelectedModel, line) \/ contains(DefaultModel, line)

\* lines 78-80: parts = line.split(" "); model_name = parts[-1].strip("'.")
ModelNameOfLine(line) ==
    LET parts == split(line)
    IN  strip(parts[Len(parts)], {"'", "."})

\* lines 73-81: the default, or the name on the first marker line
InferModelName(stdout) ==
    LET lines == splitlines(stdout)
        hits == {i \in 1..Len(lines) : IsMarkerLine(lines[i])}
    IN  IF hits = {} THEN htdemucs
        ELSE ModelNameOfLine(lines[CHOOSE i \in hits : \A j \in hits : i <= j])

\* ------------------------------------------------------------------ pathlib

\* PurePath.__truediv__ for relative segments without "/": an empty segment
\* adds no component.
PathJoin(p, name) == IF name = <<>> THEN p ELSE Path(Append(p.parts, name))

\* PurePath.name
PathName(p) == p.parts[Len(p.parts)]

\* PurePath.stem: the name up to its last "." unless that dot is the first
\* or the last character of the name.
PathStem(p) ==
    LET name == PathName(p)
        dots == {i \in 1..Len(name) : name[i] = "."}
    IN  IF dots = {} THEN name
        ELSE LET i == CHOOSE k \in dots : \A j \in dots : j <= k
             IN  IF 1 < i /\ i < Len(name) THEN SubSeq(name, 1, i - 1) ELSE name

RECURSIVE joinParts(_)
joinParts(parts) ==
    IF Len(parts) = 0 THEN <<>>
    ELSE IF Len(parts) = 1 THEN parts[1]
    ELSE parts[1] \o <<"/">> \o joinParts(Tail(parts))

\* str(path)
PathStr(p) == joinParts(p.parts)

uploads_dir == Path(<< <<"uploads">> >>)
output_dir == Path(<< <<"separated_output">> >>)

\* ------------------------------------------------------------------- inputs

\* Client-supplied filenames: "a.mp3" and ".b".
Filenames == { <<"a", ".", "mp3">>, <<".", "b">> }

\* The bytes request r uploads: every request carries other bytes, of another
\* length (request 1 the longest).
Payload(r) == [i \in 1..(NumRequests + 1 - r) |-> r]

\* Paths separate_music is called with directly: a file of uploads/ that may
\* exist or not, and the directory uploads/ itself.
InputPaths == {Path(<< <<"uploads">>, f >>) : f \in Filenames} \cup {uploads_dir}

\* What the tool prints on stdout when it exits with status 0.
ToolStdouts ==
    { <<>>,
      SelectedModel \o <<" ", "is", " ", "'", "htdemucs", "'", ".", "\n">>,
      SelectedModel \o <<" ", "is", " ", "'", "mymodel", "'", ".", "\n">>,
      SelectedModel \o <<" ", "is", " ", "'", "htdemucs", "'", ".", " ", "\n">> }

\* Runs of the external tool: exit status, the text on both streams, and
\* whether the run leaves <output-dir>/htdemucs/<stem> behind.
ToolOutcomes ==
    [returncode : {0}, stdout : ToolStdouts, stderr : {<<>>}, creates : BOOLEAN]
    \cup [returncode : {1}, stdout : {<<"out", " ", "text">>},
          stderr : {<<"err", " ", "text">>}, creates : {FALSE}]

\* OSError texts of a failed open()/write() of the upload.
SaveErrors == { <<"[Errno 28] No space left on device">> }

\* ------------------------------------------------------------------- state

VARIABLES
    pc,                 \* position of each activation
    loop,               \* the request whose handler occupies the event loop thread
    file,               \* the UploadFile of each request
    uploads,            \* uploads/<filename>: whether it exists, and its bytes
    separated,          \* the directories that exist below separated_output/
    argv,               \* sys.argv of a script run
    report,             \* what the script printed last
    input_file,         \* separate_music's argument
    invocations,        \* calls of subprocess.run made by the activation
    proc,               \* the finished tool run (CompletedProcess)
    final_output_path,  \* separate_music's local of that name
    ret,                \* separate_music's return value
    exc,                \* the exception last raised in the activation
    response            \* the HTTP response of the request

vars == <<pc, loop, file, uploads, separated, argv, report, input_file,
          invocations, proc, final_output_path, ret, exc, response>>

\* ------------------------------------------------------------- file system

UploadPath(filename) == PathJoin(uploads_dir, filename)

\* Path.is_file()
IsFile(p) == \E f \in Filenames : p = UploadPath(f) /\ uploads[f].exists

\* Path.exists(); uploads/ and separated_output/ are made at start-up
\* (main.py lines 24-25).
Exists(p) == p \in {uploads_dir, output_dir} \/ IsFile(p) \/ p \in separated

\* What the tool's run leaves below the output directory.
ToolDirs(outcome, p) ==
    IF outcome.creates
    THEN { PathJoin(output_dir, htdemucs),
           PathJoin(PathJoin(output_dir, htdemucs), PathStem(p)) }
    ELSE {}

\* ------------------------------------------ run_separation.py: separate_music

\* lines 20-27 without the is_file() check
ValidInput_ExistsOnly(p) == Exists(p)

\* lines 20-27: the path exists and is a regular file
ValidInput(p) == Exists(p) /\ IsFile(p)

\* line 6: a caller calls separate_music(p)
Call(r, p) ==
    /\ pc[r] = "idle"
    /\ pc' = [pc EXCEPT ![r] = "validate"]
    /\ input_file' = [input_file EXCEPT ![r] = p]
    /\ UNCHANGED <<loop, file, uploads, separated, argv, report, invocations,
                   proc, final_output_path, ret, exc, response>>

\* lines 17-45: an invalid input returns None before any command is built
Validate(r) ==
    /\ pc[r] = "validate"
    /\ IF ValidInput(input_file[r])
       THEN /\ pc' = [pc EXCEPT ![r] = "launch"]
            /\ ret' = ret
       ELSE /\ pc' = [pc EXCEPT ![r] = "returned"]
            /\ ret' = [ret EXCEPT ![r] = None]
    /\ UNCHANGED <<loop, file, uploads, separated, argv, report, input_file,
                   invocations, proc, final_output_path, exc, response>>

\* line 57, the start of subprocess.run: the tool starts, or it is not on the
\* path (FileNotFoundError, lines 104-107: None), or starting it fails otherwise
\* (an OSError no except clause of separate_music names: it propagates).
Launch(r) ==
    /\ pc[r] = "launch"
    /\ invocations' = [invocations EXCEPT ![r] = @ + 1]
    /\ \/ /\ pc' = [pc EXCEPT ![r] = "waiting"]
          /\ UNCHANGED <<ret, exc>>
       \/ /\ pc' = [pc EXCEPT ![r] = "returned"]
          /\ exc' = [exc EXCEPT ![r] = [type |-> "FileNotFoundError",
                        text |-> <<"[Errno 2] No such file or directory: 'demucs'">>]]
          /\ ret' = [ret EXCEPT ![r] = None]
       \/ /\ pc' = [pc EXCEPT ![r] = "raised"]
          /\ exc' = [exc EXCEPT ![r] = [type |-> "PermissionError",
                        text |-> <<"[Errno 13] Permission denied: 'demucs'">>]]
          /\ UNCHANGED ret
    /\ UNCHANGED <<loop, file, uploads, separated, argv, report, input_file,
                   proc, final_output_path, response>>

\* line 57, the end of subprocess.run: the tool has exited; its status and
\* the text of both streams are captured.
ToolExit(r) ==
    /\ pc[r] = "waiting"
    /\ \E outcome \in ToolOutcomes :
          /\ proc' = [proc EXCEPT ![r] = [type |-> "CompletedProcess",
                         returncode |-> outcome.returncode,
                         stdout |-> outcome.stdout, stderr |-> outcome.stderr]]
          /\ separated' = separated \cup ToolDirs(outcome, input_file[r])
    /\ pc' = [pc EXCEPT ![r] = "exited"]
    /\ UNCHANGED <<loop, file, uploads, argv, report, input_file, invocations,
                   final_output_path, ret, exc, response>>

\* lines 96-103 running the command again after a failure
RunnerOnFailure_Retry(r) ==
    /\ pc' = [pc EXCEPT ![r] = "launch"]
    /\ exc' = [exc EXCEPT ![r] = [type |-> "CalledProcessError",
                  stdout |-> proc[r].stdout, stderr |-> proc[r].stderr]]
    /\ UNCHANGED <<ret, final_output_path>>

\* lines 57, 96-103: check=True raises CalledProcessError on a non-zero status;
\* separate_music catches it, prints both streams and returns None.
RunnerOnFailure(r) ==
    /\ pc' = [pc EXCEPT ![r] = "returned"]
    /\ exc' = [exc EXCEPT ![r] = [type |-> "CalledProcessError",
                  stdout |-> proc[r].stdout, stderr |-> proc[r].stderr]]
    /\ ret' = [ret EXCEPT ![r] = None]
    /\ UNCHANGED final_output_path

\* lines 86-94 returning None when the candidate path is missing
ConfirmedPath_NoFallback(candidate) == IF Exists(candidate) THEN candidate ELSE None

\* lines 86-94: the candidate path if it exists, else the base output directory
ConfirmedPath(candidate) == IF Exists(candidate) THEN candidate ELSE output_dir

\* line 84 (with line 35): output_dir / model_name / file_stem
CandidatePath(stdout, p) ==
    PathJoin(PathJoin(output_dir, InferModelName(stdout)), PathStem(p))

\* lines 59-94: after a zero status
RunnerOnSuccess(r) ==
    LET candidate == CandidatePath(proc[r].stdout, input_file[r])
    IN  /\ pc' = [pc EXCEPT ![r] = "returned"]
        /\ final_output_path' = [final_output_path EXCEPT ![r] = candidate]
        /\ ret' = [ret EXCEPT ![r] = ConfirmedPath(candidate)]
        /\ UNCHANGED exc

\* lines 57-103, from the tool's exit to the return
Finish(r) ==
    /\ pc[r] = "exited"
    /\ IF proc[r].returncode # 0 THEN RunnerOnFailure(r) ELSE RunnerOnSuccess(r)
    /\ UNCHANGED <<loop, file, uploads, separated, argv, report, input_file,
                   invocations, proc, response>>

\* ---------------------------------------------- run_separation.py: __main__

\* Command lines of the script: its name and up to two arguments.
Argvs ==
    {<< <<"run_separation.py">> >>}
    \cup {<< <<"run_separation.py">>, PathStr(p) >> : p \in InputPaths}
    \cup {<< <<"run_separation.py">>, PathStr(p), PathStr(q) >> : p, q \in InputPaths}

\* lines 113-126: without an argument the usage line; with one, line 118
\* assigns to an attribute of the name file_to_, which is bound nowhere:
\* NameError, the script ends with a traceback before line 121.
ScriptMain(r) ==
    /\ pc[r] = "idle"
    /\ \E a \in Argvs :
          /\ argv' = [argv EXCEPT ![r] = a]
          /\ IF Len(a) < 2
             THEN /\ report' = [report EXCEPT ![r] = "usage"]
                  /\ pc' = [pc EXCEPT ![r] = "exit"]
                  /\ exc' = exc
             ELSE /\ report' = report
                  /\ pc' = [pc EXCEPT ![r] = "crashed"]
                  /\ exc' = [exc EXCEPT ![r] = [type |-> "NameError",
                                text |-> <<"name 'file_to_' is not defined">>]]
    /\ UNCHANGED <<loop, file, uploads, separated, input_file, invocations,
                   proc, final_output_path, ret, response>>

\* ------------------------------------------ main.py: separate_audio_endpoint

Text(t) == [text |-> t]
HTTPResponse(status, body) == [type |-> "Response", status |-> status, body |-> body]

\* HTTPException(status_code=500, detail=d) as the framework answers it
HTTPError(d) == HTTPResponse(500, [detail |-> d])

\* str() of an HTTPException: "<status>: <detail>" where the installed
\* framework defines __str__ for it, the empty text where it does not.
StrHTTPException(status, detail) == { <<status, ": ">> \o detail, <<>> }

SeparationFailed == <<"Separation failed. Check server logs.">>

\* line 39 declared "def": the framework would run each call on a pool thread
EventLoopFree_ThreadPool == TRUE

\* lines 39-98: the handler is a coroutine without any await, so from its
\* first line to its response it keeps the event loop thread; another
\* request's handler starts only when no handler is running.
EventLoopFree == loop = NoRequest

\* lines 56-57 opening the file for update instead: what lies beyond the
\* bytes written stays
Written_NoTruncate(old, data, k) == SubSeq(data, 1, k) \o SubSeq(old, k + 1, Len(old))

\* lines 56-57: open("wb") empties the file, copyfileobj writes the bytes;
\* k of them are written when the write ends.
Written(old, data, k) == SubSeq(data, 1, k)

\* line 60 without the error text
SaveFailureDetail_Generic(e) == Text(<<"Failed to save file">>)

\* line 60: f"Failed to save file: {e}"
SaveFailureDetail(e) == Text(<<"Failed to save file: ">> \o e.text)

\* lines 38-39: the framework has parsed the upload and schedules the handler
Receive(r) ==
    /\ pc[r] = "idle"
    /\ \E f \in Filenames :
          file' = [file EXCEPT ![r] = [type |-> "UploadFile", filename |-> f,
                                       bytes |-> Payload(r), closed |-> FALSE]]
    /\ pc' = [pc EXCEPT ![r] = "received"]
    /\ UNCHANGED <<loop, uploads, separated, argv, report, input_file, invocations,
                   proc, final_output_path, ret, exc, response>>

\* lines 51-65: open uploads/<filename> for writing and copy the upload into
\* it.  open() may fail (the file on disk stays as it was); the copy may fail
\* after k bytes.  On success the finally clause closes the upload.
Save(r) ==
    /\ pc[r] = "received"
    /\ EventLoopFree
    /\ loop' = r
    /\ LET f == file[r].filename
           data == file[r].bytes
       IN  \/ \E k \in 0..Len(data) :
                 /\ uploads' = [uploads EXCEPT ![f] =
                        [exists |-> TRUE, bytes |-> Written(uploads[f].bytes, data, k)]]
                 /\ IF k = Len(data)
                    THEN /\ pc' = [pc EXCEPT ![r] = "saved"]
                         /\ file' = [file EXCEPT ![r].closed = TRUE]
                         /\ exc' = exc
                    ELSE /\ pc' = [pc EXCEPT ![r] = "save_failed"]
                         /\ file' = file
                         /\ \E e \in SaveErrors :
                               exc' = [exc EXCEPT ![r] = [type |-> "OSError", text |-> e]]
           \/ /\ uploads' = uploads
              /\ pc' = [pc EXCEPT ![r] = "save_failed"]
              /\ file' = file
              /\ \E e \in SaveErrors :
                    exc' = [exc EXCEPT ![r] = [type |-> "OSError", text |-> e]]
    /\ UNCHANGED <<separated, argv, report, input_file, invocations, proc,
                   final_output_path, ret, response>>

\* lines 58-63: the except clause raises the 500, the finally clause closes
\* the upload, the handler is left.
SaveFailed(r) ==
    /\ pc[r] = "save_failed"
    /\ response' = [response EXCEPT ![r] = HTTPError(SaveFailureDetail(exc[r]))]
    /\ file' = [file EXCEPT ![r].closed = TRUE]
    /\ pc' = [pc EXCEPT ![r] = "done"]
    /\ loop' = NoRequest
    /\ UNCHANGED <<uploads, separated, argv, report, input_file, invocations,
                   proc, final_output_path, ret, exc>>

\* line 74: the handler calls separate_music(upload_path)
Delegate(r) ==
    /\ pc[r] = "saved"
    /\ pc' = [pc EXCEPT ![r] = "validate"]
    /\ input_file' = [input_file EXCEPT ![r] = UploadPath(file[r].filename)]
    /\ UNCHANGED <<loop, file, uploads, separated, argv, report, invocations,
                   proc, final_output_path, ret, exc, response>>

\* lines 73-98: the responses the handler can give once separate_music has
\* returned result, or has raised e.  The HTTPException of line 77 is raised
\* inside the try block and is an Exception: the clause of line 85 catches it
\* and raises the 500 of line 87 in its place.
HandlerResponses(raised, result, e) ==
    IF raised
    THEN IF e.type = "CalledProcessError"
         THEN { HTTPError([error |-> <<"Demucs process failed">>,
                           stdout |-> e.stdout, stderr |-> e.stderr]) }
         ELSE { HTTPError(Text(<<"An unexpected error occurred: ">> \o e.text)) }
    ELSE IF result = None
         THEN { HTTPError(Text(<<"An unexpected error occurred: ">> \o s)) :
                    s \in StrHTTPException("500", SeparationFailed) }
         ELSE { HTTPResponse(200, [message |-> <<"Separation complete!">>,
                                    output_path |-> PathStr(result)]) }

\* lines 74-98: from separate_music's return (or exception) to the response
Respond(r) ==
    /\ pc[r] \in {"returned", "raised"}
    /\ response' \in {[response EXCEPT ![r] = resp] :
                         resp \in HandlerResponses(pc[r] = "raised", ret[r], exc[r])}
    /\ pc' = [pc EXCEPT ![r] = "done"]
    /\ loop' = NoRequest
    /\ UNCHANGED <<file, uploads, separated, argv, report, input_file, invocations,
                   proc, final_output_path, ret, exc>>

\* ------------------------------------------------------------ specifications

NoFile == [exists |-> FALSE, bytes |-> <<>>]

InitLocals ==
    /\ pc = [r \in Requests |-> "idle"]
    /\ loop = NoRequest
    /\ file = [r \in Requests |-> Unbound]
    /\ separated = {}
    /\ argv = [r \in Requests |-> <<>>]
    /\ report = [r \in Requests |-> ""]
    /\ input_file = [r \in Requests |-> Unbound]
    /\ invocations = [r \in Requests |-> 0]
    /\ proc = [r \in Requests |-> Unbound]
    /\ final_output_path = [r \in Requests |-> Unbound]
    /\ ret = [r \in Requests |-> Unbound]
    /\ exc = [r \in Requests |-> None]
    /\ response = [r \in Requests |-> Unbound]

\* The service after start-up: no request yet, uploads/ empty.
Init ==
    /\ InitLocals
    /\ uploads = [f \in Filenames |-> NoFile]

Next ==
    \E r \in Requests :
        \/ Receive(r)
        \/ Save(r)
        \/ SaveFailed(r)
        \/ Delegate(r)
        \/ Validate(r)
        \/ Launch(r)
        \/ ToolExit(r)
        \/ Finish(r)
        \/ Respond(r)

\* The HTTP service.
Spec == Init /\ [][Next]_vars

\* separate_music called directly and the script run from the command line,
\* over a directory uploads/ that holds any of the files.
InitRunner ==
    /\ InitLocals
    /\ uploads \in [Filenames -> {NoFile, [exists |-> TRUE, bytes |-> <<7>>]}]

NextRunner ==
    \E r \in Requests :
        \/ \E p \in InputPaths : Call(r, p)
        \/ ScriptMain(r)
        \/ Validate(r)
        \/ Launch(r)
        \/ ToolExit(r)
        \/ Finish(r)

SpecRunner == InitRunner /\ [][NextRunner]_vars

\* Texts of the tool's stdout for the name inference: an optional first line
\* without marker, a line that starts with a marker (or with a near miss of
\* one) and goes on with any tail of at most MaxTail tokens, and an optional
\* later marker line.
TailTokens == {"m", " ", "\t", "'", "."}
Tails == UNION {[1..n -> TailTokens] : n \in 0..MaxTail}
InferTexts ==
    { pre \o marker \o tail \o post :
        pre \in {<<>>, <<"Loading", "\n">>},
        marker \in {SelectedModel, DefaultModel, <<"Selected", "\t", "model">>},
        tail \in Tails,
        post \in {<<>>, <<"\n", "default", " ", "model", " ", "x">>} }

\* separate_music at the return of subprocess.run, the tool having exited
\* with status 0 and printed any of the texts.
InitInfer ==
    /\ pc = [r \in Requests |-> IF r = 1 THEN "exited" ELSE "idle"]
    /\ loop = NoRequest
    /\ file = [r \in Requests |-> Unbound]
    /\ uploads = [f \in Filenames |-> [exists |-> TRUE, bytes |-> <<7>>]]
    /\ \E created \in BOOLEAN, f \in Filenames :
          /\ separated = ToolDirs([creates |-> created], UploadPath(f))
          /\ input_file = [r \in Requests |-> IF r = 1 THEN UploadPath(f) ELSE Unbound]
    /\ argv = [r \in Requests |-> <<>>]
    /\ report = [r \in Requests |-> ""]
    /\ invocations = [r \in Requests |-> IF r = 1 THEN 1 ELSE 0]
    /\ \E out \in InferTexts :
          proc = [r \in Requests |->
                     IF r = 1 THEN [type |-> "CompletedProcess", returncode |-> 0,
                                    stdout |-> out, stderr |-> <<>>]
                     ELSE Unbound]
    /\ final_output_path = [r \in Requests |-> Unbound]
    /\ ret = [r \in Requests |-> Unbound]
    /\ exc = [r \in Requests |-> None]
    /\ response = [r \in Requests |-> Unbound]

NextInfer == \E r \in Requests : Finish(r)

SpecInfer == InitInfer /\ [][NextInfer]_vars

\* ------------------------------------------------------------------- claims

ToolExited(r) == proc[r].type = "CompletedProcess"
Responded(r) == response[r].type = "Response"

\* C1: a request whose upload was saved and whose tool run exited with a
\* non-zero status is answered 500 with the object {error, stdout, stderr},
\* stdout and stderr being the text the tool produced.
C1_NonZeroExitAnswersToolStreams ==
    \A r \in Requests :
        (pc[r] = "done" /\ ToolExited(r) /\ proc[r].returncode # 0) =>
            /\ response[r].status = 500
            /\ DOMAIN response[r].body.detail = {"error", "stdout", "stderr"}
            /\ response[r].body.detail.stdout = proc[r].stdout
            /\ response[r].body.detail.stderr = proc[r].stderr

\* C2: separate_music called with a path that does not exist or is not a
\* regular file returns None, raises nothing and never calls subprocess.run.
C2_InvalidInputNoSubprocess ==
    \A r \in Requests :
        (/\ input_file[r].type = "Path"
         /\ pc[r] # "validate"
         /\ ~Exists(input_file[r]) \/ ~IsFile(input_file[r])) =>
            /\ pc[r] = "returned"
            /\ ret[r] = None
            /\ exc[r] = None
            /\ invocations[r] = 0
            /\ proc[r] = Unbound

C2_Witness ==
    \E r, q \in Requests :
        /\ pc[r] = "returned" /\ input_file[r] = uploads_dir /\ ret[r] = None
        /\ pc[q] = "returned" /\ input_file[q].type = "Path"
        /\ ~Exists(input_file[q]) /\ ret[q] = None

\* C3: when the tool exits with status 0 and the candidate path does not
\* exist, separate_music returns the base output directory, and the handler
\* then answers 200 with output_path "separated_output".
C3_FallbackToBaseDir ==
    /\ [][\A r \in Requests :
            (/\ pc[r] = "exited" /\ pc'[r] # "exited"
             /\ proc[r].returncode = 0
             /\ ~Exists(final_output_path'[r])) =>
                (pc'[r] = "returned" /\ ret'[r] = output_dir)]_vars
    /\ [](\A r \in Requests :
            (pc[r] = "done" /\ ret[r] = output_dir) =>
                /\ response[r].status = 200
                /\ response[r].body.output_path = <<"separated_output">>)

C3_Witness ==
    \E r \in Requests :
        /\ pc[r] = "done" /\ ToolExited(r) /\ proc[r].returncode = 0
        /\ ~Exists(final_output_path[r])
        /\ ret[r] = output_dir
        /\ response[r].status = 200

\* The inference as C4 states it: on the first line that mentions a marker,
\* the last token delimited by whitespace, quotes and periods stripped from
\* its ends; the default when no line mentions a marker.
LastWhitespaceToken(line) ==
    LET parts == SelectSeq(splitAt(line, {" ", "\t"}, <<>>), LAMBDA p : p # <<>>)
    IN  strip(parts[Len(parts)], {"'", "."})

StatedModelName(stdout) ==
    LET lines == splitlines(stdout)
        hits == {i \in 1..Len(lines) : IsMarkerLine(lines[i])}
    IN  IF hits = {} THEN htdemucs
        ELSE LastWhitespaceToken(lines[CHOOSE i \in hits : \A j \in hits : i <= j])

\* C4: after a zero-exit run the candidate path is
\* <output-dir>/<model name>/<stem>, the model name being the last
\* whitespace-delimited token (quotes and periods stripped) of the first
\* marker line of stdout, or htdemucs without such a line; for every stdout,
\* trailing and repeated whitespace included.
C4_CandidateFromLastWhitespaceToken ==
    \A r \in Requests :
        (pc[r] = "returned" /\ ToolExited(r) /\ proc[r].returncode = 0) =>
            final_output_path[r] =
                PathJoin(PathJoin(output_dir, StatedModelName(proc[r].stdout)),
                         PathStem(input_file[r]))

\* C5: whenever separate_music returns None to the handler, the response is
\* the 500 with detail "Separation failed. Check server logs.".
C5_NoResultAnswersSeparationFailed ==
    \A r \in Requests :
        (pc[r] = "done" /\ ret[r] = None) =>
            response[r] = HTTPError(Text(SeparationFailed))

\* Between its write to uploads/<filename> and the end of its separation run.
BetweenWriteAndRunEnd(r) == pc[r] \in {"saved", "validate", "launch", "waiting", "exited"}

\* Inside the handler body.
Handling(r) ==
    pc[r] \in {"saved", "save_failed", "validate", "launch", "waiting", "exited",
               "returned", "raised"}

C7_SaveOverwrites ==
    \A r \in Requests :
        pc[r] = "saved" =>
            uploads[file[r].filename] = [exists |-> TRUE, bytes |-> file[r].bytes]

C7_Witness ==
    \E r, q \in Requests :
        /\ r # q
        /\ pc[q] = "done" /\ response[q].status = 200
        /\ pc[r] = "saved"
        /\ file[q].filename = file[r].filename
        /\ file[q].bytes # file[r].bytes
        /\ Len(file[q].bytes) > Len(file[r].bytes)
        /\ uploads[file[r].filename].bytes = file[r].bytes

\* C8: a failed write of the upload ends the request with the 500
\* "Failed to save file: <error>", separate_music is never called for it,
\* and the upload is closed.
C8_SaveFailure ==
    \A r \in Requests :
        exc[r].type = "OSError" =>
            /\ pc[r] \in {"save_failed", "done"}
            /\ input_file[r] = Unbound
            /\ invocations[r] = 0
            /\ pc[r] = "done" =>
                  /\ response[r].status = 500
                  /\ response[r].body.detail = Text(<<"Failed to save file: ">> \o exc[r].text)
                  /\ file[r].closed

C8_Witness ==
    \E r \in Requests :
        /\ pc[r] = "done"
        /\ exc[r].type = "OSError"
        /\ uploads[file[r].filename].exists
        /\ uploads[file[r].filename].bytes # file[r].bytes
        /\ response[r].status = 500
        /\ file[r].closed

\* C9: the script run with one argument calls separate_music with it and
\* reports the output path or that it finished with errors; run without
\* argument it prints the usage line and calls nothing.
C9_ScriptCallsRunner ==
    \A r \in Requests :
        /\ (Len(argv[r]) = 2 /\ pc[r] \in {"exit", "crashed"}) =>
              /\ input_file[r].type = "Path"
              /\ PathStr(input_file[r]) = argv[r][2]
              /\ report[r] \in {"output", "errors"}
        /\ (Len(argv[r]) = 1 /\ pc[r] \in {"exit", "crashed"}) =>
              /\ report[r] = "usage"
              /\ input_file[r] = Unbound

\* A failure of the request that has not been answered yet.
Failed(r) ==
    \/ pc[r] \in {"save_failed", "raised"}
    \/ pc[r] = "returned" /\ ret[r] = None

\* C10: a request is one pass: the tool is invoked at most once, a failure
\* is followed directly by the one 500 response without another invocation,
\* nothing happens after the response, and a 200 is given only after the one
\* invocation exited with status 0.
C10_SinglePassNoRetry ==
    /\ [](\A r \in Requests :
            /\ invocations[r] <= 1
            /\ Responded(r) => pc[r] = "done"
            /\ (Responded(r) /\ response[r].status = 200) =>
                  (invocations[r] = 1 /\ ToolExited(r) /\ proc[r].returncode = 0)
            /\ (Responded(r) /\ response[r].status # 200) => response[r].status = 500)
    /\ [][\A r \in Requests :
            /\ (Failed(r) /\ pc'[r] # pc[r]) =>
                  /\ pc'[r] = "done"
                  /\ response'[r].status = 500
                  /\ invocations'[r] = invocations[r]
            /\ pc[r] = "done" =>
                  /\ pc'[r] = "done"
                  /\ response'[r] = response[r]
                  /\ invocations'[r] = invocations[r]]_vars

C10_Witness ==
    \E r \in Requests :
        /\ pc[r] = "done"
        /\ invocations[r] = 1
        /\ ToolExited(r) /\ proc[r].returncode # 0
        /\ response[r].status = 500

====
